---- MODULE Spec2Model ----
(***************************************************************************)
(* lineman: walks a directory tree, and for every regular file whose       *)
(* extension is in the configured list strips trailing whitespace from     *)
(* every line and (unless disabled) normalizes the end-of-file newlines.   *)
(* Model of src/main.rs.  Text is a sequence of one-character strings.     *)
(***************************************************************************)
EXTENDS Integers, Sequences, FiniteSets, TLC

VARIABLES
    \* ---- unit level: one call of clean_lines on the segments of a text ----
    file_string,            \* the text that is split (clean_file, line 87)
    normalize_eof_newlines, \* the flag handed to clean_file / clean_lines
    lines,                  \* file_string.split_inclusive('\n')
    mapped_lines,           \* result of the .map(...) closure, lines 104-113
    cleaned_lines,          \* value returned by clean_lines
    stage,                  \* "read" -> "split" -> "cleaned" -> "recleaned"
    recleaned_lines,        \* clean_lines applied to its own result
    \* ---- program level: one run of main ----
    root_is_dir,            \* args.path.is_dir()
    extensions,             \* args.extensions
    disable_eof_newline_normalization,
    fs,                     \* regular file path -> current content
    orig,                   \* regular file path -> content before the run
    queue,                  \* entries the WalkDir iterator has still to yield
    pending_error,          \* <<d>> when the iterator's next item is the Err
                            \* for directory d, <<>> otherwise
    cleaned_file_paths,
    skipped_file_paths,
    walk_dir_errors,
    result,                 \* path -> what clean_file returned for it
    created,                \* paths on which File::create succeeded
    write_calls,            \* path -> number of write_all calls issued
    pc,                     \* "start", "walk", "done"
    exit_status,            \* "running", "Ok", "InvalidRootPath"
    report                  \* what print_report printed, <<>> before

unit_vars == <<file_string, normalize_eof_newlines, lines, mapped_lines,
               cleaned_lines, stage, recleaned_lines>>

main_vars == <<root_is_dir, extensions, disable_eof_newline_normalization,
               fs, orig, queue, pending_error,
               cleaned_file_paths, skipped_file_paths, walk_dir_errors,
               result, created, write_calls, pc, exit_status, report>>

vars == <<unit_vars, main_vars>>

----------------------------------------------------------------------------
(* Characters *)

NL  == "\n"
SP  == " "
TAB == "\t"
CR  == "\r"
FF  == "\f"

\* The alphabet the inputs are drawn from: one ordinary character, the two
\* horizontal blanks, a carriage return and the line terminator.
Chars == {"a", SP, TAB, CR, NL}

\* char::is_whitespace, which str::trim_end uses, on the characters that occur
\* here: tab, line feed, form feed, carriage return and space are whitespace.
WhiteSpace == {SP, TAB, NL, CR, FF}

IsWhitespace(c) == c \in WhiteSpace

\* Length of the longest text the unit-level specification feeds in.
MaxLen == 5

\* All texts over Chars of length at most n.
Texts(n) == UNION {[1..k -> Chars] : k \in 0..n}

----------------------------------------------------------------------------
(* Pure helpers *)

Max(S) == CHOOSE m \in S : \A x \in S : x <= m

Reverse(s) == [i \in 1..Len(s) |-> s[Len(s) + 1 - i]]

RECURSIVE Concat(_)
Concat(ss) == IF ss = <<>> THEN <<>> ELSE Head(ss) \o Concat(Tail(ss))

\* str::ends_with('\n')
EndsWithNewline(s) == Len(s) > 0 /\ s[Len(s)] = NL

\* str::trim_end with one character too few considered whitespace
TrimEndSpacesTabsOnly(s) ==
    LET keep == {i \in 1..Len(s) : s[i] \notin {SP, TAB, NL}}
    IN  SubSeq(s, 1, IF keep = {} THEN 0 ELSE Max(keep))

\* str::trim_end: drops the maximal suffix of whitespace characters
TrimEnd(s) ==
    LET keep == {i \in 1..Len(s) : ~IsWhitespace(s[i])}
    IN  SubSeq(s, 1, IF keep = {} THEN 0 ELSE Max(keep))

\* str::split_inclusive('\n'): every piece keeps its terminator; a non-empty
\* remainder after the last '\n' is the final piece; "" gives no piece.
RECURSIVE SplitInclusive(_)
SplitInclusive(s) ==
    IF s = <<>> THEN <<>>
    ELSE LET nls == {i \in 1..Len(s) : s[i] = NL}
             cut == IF nls = {} THEN Len(s)
                    ELSE CHOOSE i \in nls : \A j \in nls : i <= j
         IN  <<SubSeq(s, 1, cut)>> \o SplitInclusive(SubSeq(s, cut + 1, Len(s)))

\* the closure of lines 104-113 with the flag forgotten in the condition
CleanLineIgnoringFlag(line, normalize) ==
    IF EndsWithNewline(line) THEN TrimEnd(line) \o <<NL>> ELSE TrimEnd(line)

\* the closure of lines 104-113
CleanLine(line, normalize) ==
    LET line_has_newline == EndsWithNewline(line)
        trimmed_line == TrimEnd(line)
    IN  IF normalize \/ line_has_newline
        THEN trimmed_line \o <<NL>>
        ELSE trimmed_line

\* Iterator::skip_while: drops the longest prefix on which the predicate holds
RECURSIVE SkipWhileBlank(_, _)
SkipWhileBlank(s, normalize) ==
    IF s # <<>> /\ normalize /\ TrimEnd(Head(s)) = <<>>
    THEN SkipWhileBlank(Tail(s), normalize)
    ELSE s

\* lines 102-113: the per-line image, before anything is dropped
MapLines(ls, normalize) == [i \in 1..Len(ls) |-> CleanLine(ls[i], normalize)]

\* clean_lines that drops at most one trailing blank line
CleanLinesDropOne(ls, normalize) ==
    LET m == MapLines(ls, normalize)
    IN  IF m # <<>> /\ normalize /\ TrimEnd(m[Len(m)]) = <<>>
        THEN SubSeq(m, 1, Len(m) - 1) ELSE m

\* clean_lines that drops every blank line, not only the trailing ones
CleanLinesDropAllBlank(ls, normalize) ==
    LET m == MapLines(ls, normalize)
    IN  IF normalize THEN SelectSeq(m, LAMBDA l : TrimEnd(l) # <<>>) ELSE m

\* clean_lines, lines 101-120: map, rev, skip_while, collect, reverse
clean_lines(ls, normalize) ==
    Reverse(SkipWhileBlank(Reverse(MapLines(ls, normalize)), normalize))

----------------------------------------------------------------------------
(* Unit-level specification: split a text and clean its segments *)

InitUnitIdle ==
    /\ file_string = <<>>
    /\ normalize_eof_newlines = TRUE
    /\ lines = <<>>
    /\ mapped_lines = <<>>
    /\ cleaned_lines = <<>>
    /\ recleaned_lines = <<>>
    /\ stage = "idle"

InitUnit ==
    /\ file_string \in Texts(MaxLen)
    /\ normalize_eof_newlines \in BOOLEAN
    /\ lines = <<>>
    /\ mapped_lines = <<>>
    /\ cleaned_lines = <<>>
    /\ recleaned_lines = <<>>
    /\ stage = "read"

\* line 88
Split ==
    /\ stage = "read"
    /\ lines' = SplitInclusive(file_string)
    /\ stage' = "split"
    /\ UNCHANGED <<file_string, normalize_eof_newlines, mapped_lines,
                   cleaned_lines, recleaned_lines, main_vars>>

\* the call clean_lines(&lines, normalize_eof_newlines) of line 91
CleanLines ==
    /\ stage = "split"
    /\ mapped_lines' = MapLines(lines, normalize_eof_newlines)
    /\ cleaned_lines' = clean_lines(lines, normalize_eof_newlines)
    /\ stage' = "cleaned"
    /\ UNCHANGED <<file_string, normalize_eof_newlines, lines,
                   recleaned_lines, main_vars>>

\* a second run over the text just produced: clean_lines on its own result
CleanAgain ==
    /\ stage = "cleaned"
    /\ recleaned_lines' = clean_lines(cleaned_lines, normalize_eof_newlines)
    /\ stage' = "recleaned"
    /\ UNCHANGED <<file_string, normalize_eof_newlines, lines, mapped_lines,
                   cleaned_lines, main_vars>>

----------------------------------------------------------------------------
(* The directory tree of a run *)

SLASH == "/"
DOT   == "."

Root      == <<"r">>
NotesTxt  == <<"r", "/", "n", ".", "t", "x", "t">>
NotesTxtx == <<"r", "/", "n", ".", "t", "x", "t", "x">>
HiddenTxt == <<"r", "/", ".", "t", "x", "t">>
UpperTxt  == <<"r", "/", "m", ".", "T", "X", "T">>
SubDir    == <<"r", "/", "d", ".", "t", "x", "t">>
SubPy     == <<"r", "/", "d", ".", "t", "x", "t", "/", "k", ".", "p", "y">>

Dirs  == {Root, SubDir}
Files == {NotesTxt, NotesTxtx, HiddenTxt, UpperTxt, SubPy}

\* Path::is_file
IsFile(p) == p \in Files

\* the entries of a directory, in the order read_dir lists them
Children(d) ==
    IF d = Root THEN <<NotesTxt, NotesTxtx, HiddenTxt, SubDir, UpperTxt>>
    ELSE IF d = SubDir THEN <<SubPy>>
    ELSE <<>>

\* p lies below directory d
IsUnder(p, d) == Len(p) > Len(d) + 1 /\ SubSeq(p, 1, Len(d) + 1) = d \o <<SLASH>>

TXT == <<"t", "x", "t">>
PY  == <<"p", "y">>

\* the values of --extensions a run is started with
ExtensionLists == {<<>>, <<TXT>>, <<PY, TXT>>}

\* Length of the longest content of r/n.txt a run is started with.
MaxContent == 3

Dirty == <<"a", SP, NL>>

\* Path::file_name: the last component
FileName(p) ==
    LET slashes == {i \in 1..Len(p) : p[i] = SLASH}
    IN  SubSeq(p, (IF slashes = {} THEN 0 ELSE Max(slashes)) + 1, Len(p))

None == <<"None">>
Some(x) == <<"Some", x>>

\* Path::extension: the part of the file name after its last dot; None when
\* there is no dot or the only dot is the first character of the name
Extension(p) ==
    LET name == FileName(p)
        dots == {i \in 1..Len(name) : name[i] = DOT}
    IN  IF name = <<DOT, DOT>> \/ dots = {} \/ Max(dots) = 1
        THEN None
        ELSE Some(SubSeq(name, Max(dots) + 1, Len(name)))

\* a filter that accepts an extension which merely begins with a listed one
ExtensionHasListedPrefix(exts, ext) ==
    \E i \in 1..Len(exts) :
        Len(ext) >= Len(exts[i]) /\ SubSeq(ext, 1, Len(exts[i])) = exts[i]

\* lines 60-63: some listed extension equals the file's extension
FileIsInExtensionVector(exts, ext) == \E i \in 1..Len(exts) : exts[i] = ext

\* a routing that files every processed file under "cleaned"
PushCleanedAlways(paths, res, p) == Append(paths, p)

\* line 67
PushCleaned(paths, res, p) == IF res = "Ok" THEN Append(paths, p) ELSE paths

\* a routing that loses the files that could not be written back
PushSkippedNotOpenedOnly(paths, res, p) ==
    IF res = "FileNotOpened" THEN Append(paths, p) ELSE paths

\* lines 68-70
PushSkipped(paths, res, p) ==
    IF res \in {"FileNotOpened", "FileNotCleaned"} THEN Append(paths, p) ELSE paths

\* line 48
NormalizeEof == ~disable_eof_newline_normalization

\* a write loop that stops one line short
AllButLastWritten(cls) ==
    IF cls = <<>> THEN <<>> ELSE Concat(SubSeq(cls, 1, Len(cls) - 1))

\* lines 91-96 when every write_all succeeds: the lines, in order
AllWritten(cls) == Concat(cls)

\* lines 88-91: the lines clean_file writes for a content
LinesToWrite(content, normalize) == clean_lines(SplitInclusive(content), normalize)

----------------------------------------------------------------------------
(* Program-level specification: one run of main *)

InitMainIdle ==
    /\ root_is_dir = FALSE
    /\ extensions = <<>>
    /\ disable_eof_newline_normalization = FALSE
    /\ fs = [p \in Files |-> <<>>]
    /\ orig = [p \in Files |-> <<>>]
    /\ queue = <<>>
    /\ pending_error = <<>>
    /\ cleaned_file_paths = <<>>
    /\ skipped_file_paths = <<>>
    /\ walk_dir_errors = <<>>
    /\ result = [p \in Files |-> "none"]
    /\ created = {}
    /\ write_calls = [p \in Files |-> 0]
    /\ pc = "idle"
    /\ exit_status = "running"
    /\ report = <<>>

InitMain ==
    /\ root_is_dir \in BOOLEAN
    /\ extensions \in ExtensionLists
    /\ disable_eof_newline_normalization \in BOOLEAN
    /\ \E c \in Texts(MaxContent) :
          fs = [p \in Files |-> IF p = NotesTxt THEN c ELSE Dirty]
    /\ orig = fs
    /\ queue = <<Root>>
    /\ pending_error = <<>>
    /\ cleaned_file_paths = <<>>
    /\ skipped_file_paths = <<>>
    /\ walk_dir_errors = <<>>
    /\ result = [p \in Files |-> "none"]
    /\ created = {}
    /\ write_calls = [p \in Files |-> 0]
    /\ pc = "start"
    /\ exit_status = "running"
    /\ report = <<>>

config_vars == <<root_is_dir, extensions, disable_eof_newline_normalization, orig>>

\* lines 42-46
InvalidRootPath ==
    /\ pc = "start"
    /\ ~root_is_dir
    /\ pc' = "done"
    /\ exit_status' = "InvalidRootPath"
    /\ UNCHANGED <<config_vars, fs, queue, pending_error, cleaned_file_paths,
                   skipped_file_paths, walk_dir_errors, result, created,
                   write_calls, report, unit_vars>>

\* lines 42-50 with a valid root: WalkDir::new(root_path)
BeginWalk ==
    /\ pc = "start"
    /\ root_is_dir
    /\ pc' = "walk"
    /\ UNCHANGED <<config_vars, fs, queue, pending_error, cleaned_file_paths,
                   skipped_file_paths, walk_dir_errors, result, created,
                   write_calls, exit_status, report, unit_vars>>

\* the next item of the iterator is Ok(dir_entry) for the head of the queue
NextIsEntry == pc = "walk" /\ pending_error = <<>> /\ queue # <<>>

\* line 77
WalkDirError ==
    /\ pc = "walk"
    /\ pending_error # <<>>
    /\ walk_dir_errors' = Append(walk_dir_errors, pending_error[1])
    /\ pending_error' = <<>>
    /\ UNCHANGED <<config_vars, fs, queue, cleaned_file_paths,
                   skipped_file_paths, result, created, write_calls, pc,
                   exit_status, report, unit_vars>>

\* lines 55-57: the entry is not a regular file.  A directory is then listed
\* by the iterator: its entries come next, or the listing fails and the next
\* item is an Err.
NotAFile ==
    /\ NextIsEntry
    /\ ~IsFile(Head(queue))
    /\ \E readable \in BOOLEAN :
          IF readable
          THEN /\ queue' = Children(Head(queue)) \o Tail(queue)
               /\ pending_error' = <<>>
          ELSE /\ queue' = Tail(queue)
               /\ pending_error' = <<Head(queue)>>
    /\ UNCHANGED <<config_vars, fs, cleaned_file_paths, skipped_file_paths,
                   walk_dir_errors, result, created, write_calls, pc,
                   exit_status, report, unit_vars>>

\* the entry is a regular file that reaches clean_file
Matches(p) ==
    /\ IsFile(p)
    /\ Extension(p) # None
    /\ FileIsInExtensionVector(extensions, Extension(p)[2])

\* lines 59-73 when there is no extension or it is not listed
NotSelected ==
    /\ NextIsEntry
    /\ IsFile(Head(queue))
    /\ ~Matches(Head(queue))
    /\ queue' = Tail(queue)
    /\ UNCHANGED <<config_vars, fs, pending_error, cleaned_file_paths,
                   skipped_file_paths, walk_dir_errors, result, created,
                   write_calls, pc, exit_status, report, unit_vars>>

\* lines 66-71: what main does with the value clean_file returned
Record(p, res) ==
    /\ result' = [result EXCEPT ![p] = res]
    /\ cleaned_file_paths' = PushCleaned(cleaned_file_paths, res, p)
    /\ skipped_file_paths' = PushSkipped(skipped_file_paths, res, p)
    /\ queue' = Tail(queue)
    /\ UNCHANGED <<config_vars, pending_error, walk_dir_errors, pc,
                   exit_status, report, unit_vars>>

\* clean_file, line 87 fails: nothing was touched
CleanFileNotOpened ==
    /\ NextIsEntry
    /\ Matches(Head(queue))
    /\ Record(Head(queue), "FileNotOpened")
    /\ UNCHANGED <<fs, created, write_calls>>

\* clean_file, line 89 fails: the file was read but could not be created
CleanFileNotCreated ==
    /\ NextIsEntry
    /\ Matches(Head(queue))
    /\ Record(Head(queue), "FileNotCleaned")
    /\ UNCHANGED <<fs, created, write_calls>>

\* clean_file, line 94 fails at the k-th line: the file was truncated, the
\* lines before the k-th are written and any part of the k-th but not all of
\* it (write_all of an empty line cannot fail)
CleanFileWriteFailed ==
    /\ NextIsEntry
    /\ Matches(Head(queue))
    /\ LET p == Head(queue)
           cls == LinesToWrite(fs[p], NormalizeEof)
       IN  \E k \in 1..Len(cls) :
             /\ cls[k] # <<>>
             /\ \E part \in 0..(Len(cls[k]) - 1) :
                   fs' = [fs EXCEPT ![p] = AllWritten(SubSeq(cls, 1, k - 1))
                                            \o SubSeq(cls[k], 1, part)]
             /\ write_calls' = [write_calls EXCEPT ![p] = k]
             /\ created' = created \cup {p}
             /\ Record(p, "FileNotCleaned")

\* clean_file returns Ok(()): read, truncated, every cleaned line written
CleanFileOk ==
    /\ NextIsEntry
    /\ Matches(Head(queue))
    /\ LET p == Head(queue)
           cls == LinesToWrite(fs[p], NormalizeEof)
       IN  /\ fs' = [fs EXCEPT ![p] = AllWritten(cls)]
           /\ write_calls' = [write_calls EXCEPT ![p] = Len(cls)]
           /\ created' = created \cup {p}
           /\ Record(p, "Ok")

\* lines 81-83: the iterator is exhausted
PrintReport ==
    /\ pc = "walk"
    /\ pending_error = <<>>
    /\ queue = <<>>
    /\ report' = <<[cleaned |-> cleaned_file_paths,
                    skipped |-> skipped_file_paths,
                    errors  |-> walk_dir_errors]>>
    /\ exit_status' = "Ok"
    /\ pc' = "done"
    /\ UNCHANGED <<config_vars, fs, queue, pending_error, cleaned_file_paths,
                   skipped_file_paths, walk_dir_errors, result, created,
                   write_calls, unit_vars>>

Init == InitMain /\ InitUnitIdle

Next ==
    \/ InvalidRootPath
    \/ BeginWalk
    \/ WalkDirError
    \/ NotAFile
    \/ NotSelected
    \/ CleanFileNotOpened
    \/ CleanFileNotCreated
    \/ CleanFileWriteFailed
    \/ CleanFileOk
    \/ PrintReport

Spec == Init /\ [][Next]_vars

InitUnitSpec == InitUnit /\ InitMainIdle

NextUnit == Split \/ CleanLines \/ CleanAgain

SpecUnit == InitUnitSpec /\ [][NextUnit]_vars

----------------------------------------------------------------------------
(* Vocabulary of the properties *)

\* a segment without its terminating '\n'
Core(s) == IF EndsWithNewline(s) THEN SubSeq(s, 1, Len(s) - 1) ELSE s

\* out is inp with its maximal trailing run of characters of set S removed
StrippedOf(inp, out, S) ==
    \E k \in 0..Len(inp) :
        /\ out = SubSeq(inp, 1, k)
        /\ \A i \in (k + 1)..Len(inp) : inp[i] \in S
        /\ k = 0 \/ inp[k] \notin S

\* s ends with '\n' and the character before it, if any, is not '\n'
EndsWithOneNewline(s) ==
    /\ Len(s) > 0
    /\ s[Len(s)] = NL
    /\ Len(s) = 1 \/ s[Len(s) - 1] # NL

\* only spaces, tabs and an optional newline
OnlySpacesTabs(s) == \A i \in 1..Len(s) : s[i] \in {SP, TAB, NL}

\* only whitespace characters
OnlyWhitespace(s) == \A i \in 1..Len(s) : s[i] \in WhiteSpace

\* ls is a non-blank segment at position m followed by n > 0 blank ones,
\* blank being decided by Blank(_)
TailOfBlanks(ls, m, Blank(_)) ==
    /\ m \in 1..(Len(ls) - 1)
    /\ ~Blank(ls[m])
    /\ \A i \in (m + 1)..Len(ls) : Blank(ls[i])

Cleaned == stage \in {"cleaned", "recleaned"}

InSeq(p, s) == \E i \in 1..Len(s) : s[i] = p

Count(p, s) == Cardinality({i \in 1..Len(s) : s[i] = p})

\* content c is what cleaning with flag f turns it into: no line has
\* whitespace before its end, and with f the text is empty or ends with the
\* newline of a line that is not empty
AlreadyClean(c, f) ==
    LET segs == SplitInclusive(c)
    IN  /\ \A i \in 1..Len(segs) :
              Core(segs[i]) = <<>> \/ Core(segs[i])[Len(Core(segs[i]))] \notin WhiteSpace
        /\ f => (c = <<>> \/ (EndsWithNewline(c) /\ Core(segs[Len(segs)]) # <<>>))

HasVisibleChar(c) == \E i \in 1..Len(c) : c[i] \notin WhiteSpace

\* the extension each file of the tree carries, read off its name
NamedExtension(p) ==
    IF p = NotesTxt THEN <<"t", "x", "t">>
    ELSE IF p = NotesTxtx THEN <<"t", "x", "t", "x">>
    ELSE IF p = UpperTxt THEN <<"T", "X", "T">>
    ELSE IF p = SubPy THEN <<"p", "y">>
    ELSE <<"no extension">>

Configured(p) == \E i \in 1..Len(extensions) : extensions[i] = NamedExtension(p)

\* the listing of a directory above p failed
Unreached(p) == \E d \in Dirs : IsUnder(p, d) /\ InSeq(d, walk_dir_errors)

----------------------------------------------------------------------------
(* C3 *)

\* C3 as stated: the per-line normalization removes exactly the maximal
\* trailing run of spaces and tabs before the terminator or the end, and keeps
\* every other character, '\r' included.
C3_OnlySpacesAndTabsRemoved ==
    Cleaned => \A i \in 1..Len(lines) :
        StrippedOf(Core(lines[i]), Core(mapped_lines[i]), {SP, TAB})

\* C3 amended: the per-line normalization removes exactly the maximal trailing
\* run of whitespace characters (space, tab, and also carriage return, form
\* feed and whatever else is whitespace) before the segment's terminating
\* '\n' or its end; every other character is kept, unchanged and in order.
C3_TrailingWhitespaceRemoved ==
    Cleaned => \A i \in 1..Len(lines) :
        StrippedOf(Core(lines[i]), Core(mapped_lines[i]), WhiteSpace)

C3_Witness ==
    /\ Cleaned
    /\ \E i \in 1..Len(lines) :
          /\ Core(mapped_lines[i]) = <<"a">>
          /\ Core(lines[i]) = <<"a", TAB, CR, SP>>

----------------------------------------------------------------------------
(* C4 *)

\* C4 as stated, blank meaning spaces, tabs and an optional newline only: with
\* the flag the result ends with the cleaned last non-blank segment, which
\* ends in one '\n'; without it the same number of trailing blank segments
\* is kept.
C4_BlankTailSpacesTabs ==
    Cleaned => \A m \in 1..Len(lines) :
        TailOfBlanks(lines, m, OnlySpacesTabs) =>
            IF normalize_eof_newlines
            THEN /\ Len(cleaned_lines) = m
                 /\ cleaned_lines[m] = mapped_lines[m]
                 /\ EndsWithOneNewline(cleaned_lines[m])
            ELSE /\ Len(cleaned_lines) = Len(lines)
                 /\ TailOfBlanks(cleaned_lines, m, OnlySpacesTabs)

\* C4 amended: blank means whitespace only (a line holding nothing but '\r',
\* form feeds, spaces, tabs and the newline is blank too).  For a non-blank
\* segment followed by N > 0 blank ones, with the flag the result ends with
\* the cleaned last non-blank segment, ending in exactly one '\n', and all N
\* are dropped; without the flag the result keeps exactly N trailing blank
\* segments.
C4_BlankTailWhitespace ==
    Cleaned => \A m \in 1..Len(lines) :
        TailOfBlanks(lines, m, OnlyWhitespace) =>
            IF normalize_eof_newlines
            THEN /\ Len(cleaned_lines) = m
                 /\ cleaned_lines[m] = mapped_lines[m]
                 /\ EndsWithOneNewline(cleaned_lines[m])
                 /\ StrippedOf(Core(lines[m]), Core(cleaned_lines[m]), WhiteSpace)
            ELSE /\ Len(cleaned_lines) = Len(lines)
                 /\ TailOfBlanks(cleaned_lines, m, OnlyWhitespace)

C4_Witness ==
    /\ Cleaned
    /\ normalize_eof_newlines
    /\ Len(lines) = 4
    /\ TailOfBlanks(lines, 2, OnlyWhitespace)
    /\ Len(cleaned_lines) = 2

----------------------------------------------------------------------------
(* C6 *)

\* C6: the per-line normalization ends with exactly one '\n' iff the segment
\* ended with '\n' or the flag is set; an unterminated non-blank final segment
\* gains one '\n' with the flag and without it stays unterminated, its
\* trailing whitespace removed.
C6_NewlineIffTerminatedOrFlag ==
    Cleaned => \A i \in 1..Len(lines) :
        /\ EndsWithOneNewline(mapped_lines[i])
              <=> (EndsWithNewline(lines[i]) \/ normalize_eof_newlines)
        /\ (~EndsWithNewline(lines[i]) /\ HasVisibleChar(lines[i])) =>
              IF normalize_eof_newlines
              THEN \E k \in 1..Len(lines[i]) :
                      mapped_lines[i] = SubSeq(lines[i], 1, k) \o <<NL>>
              ELSE /\ mapped_lines[i] # <<>>
                   /\ mapped_lines[i][Len(mapped_lines[i])] \notin WhiteSpace

C6_Witness ==
    /\ Cleaned
    /\ normalize_eof_newlines
    /\ lines = <<<<"a", NL>>, <<"a", SP>>>>
    /\ mapped_lines[2] = <<"a", NL>>

----------------------------------------------------------------------------
(* C7 *)

\* C7: cleaning what clean_lines returned, with the same flag, returns it
\* again; and the text made of the cleaned lines, split and cleaned once more,
\* is the same text.
C7_Idempotent ==
    stage = "recleaned" =>
        /\ recleaned_lines = cleaned_lines
        /\ AllWritten(LinesToWrite(AllWritten(cleaned_lines), normalize_eof_newlines))
              = AllWritten(cleaned_lines)

C7_Witness ==
    /\ stage = "recleaned"
    /\ cleaned_lines # <<>>
    /\ Len(cleaned_lines) < Len(lines)
    /\ cleaned_lines[1] # lines[1]

----------------------------------------------------------------------------
(* C10 *)

\* C10: the result is a pointwise image of a prefix of the input: it is no
\* longer than the input, its i-th element is the per-line normalization of
\* the i-th segment, no segment at or before the last non-blank one is
\* dropped (blank: whitespace only), and without the flag nothing is dropped.
C10_PrefixImage ==
    Cleaned =>
        /\ Len(cleaned_lines) <= Len(lines)
        /\ \A i \in 1..Len(cleaned_lines) :
              /\ cleaned_lines[i] = mapped_lines[i]
              /\ Core(cleaned_lines[i]) = SubSeq(lines[i], 1, Len(Core(cleaned_lines[i])))
        /\ \A i \in 1..Len(lines) :
              (\E j \in i..Len(lines) : ~OnlyWhitespace(lines[j]))
                  => i <= Len(cleaned_lines)
        /\ ~normalize_eof_newlines => Len(cleaned_lines) = Len(lines)

C10_Witness ==
    /\ Cleaned
    /\ normalize_eof_newlines
    /\ Len(lines) = 4
    /\ OnlyWhitespace(lines[1])
    /\ ~OnlyWhitespace(lines[2])
    /\ Len(cleaned_lines) = 2

----------------------------------------------------------------------------
(* C1 *)

\* C1 as stated: a file whose content is already its cleaned form is neither
\* created/truncated nor written, and is left untouched.
C1_NoRewriteWhenClean ==
    \A p \in Files :
        AlreadyClean(orig[p], NormalizeEof) =>
            /\ p \notin created
            /\ write_calls[p] = 0
            /\ fs[p] = orig[p]

\* C1 amended: clean_file creates/truncates and rewrites every file it could
\* read, also one whose content is already identical to its cleaned form; for
\* such a file a clean_file that returns Ok has written back exactly the
\* original bytes, and a file that was never created/truncated is untouched.
C1_RewriteKeepsCleanContent ==
    \A p \in Files :
        /\ result[p] = "Ok" => p \in created
        /\ (result[p] = "Ok" /\ AlreadyClean(orig[p], NormalizeEof)) => fs[p] = orig[p]
        /\ p \notin created => (fs[p] = orig[p] /\ write_calls[p] = 0)

C1_Witness ==
    /\ result[NotesTxt] = "Ok"
    /\ orig[NotesTxt] = <<"a", NL>>
    /\ NormalizeEof
    /\ NotesTxt \in created
    /\ write_calls[NotesTxt] = 1
    /\ fs[NotesTxt] = orig[NotesTxt]

----------------------------------------------------------------------------
(* C2 *)

\* C2 as stated: a file is in the cleaned list exactly when its clean
\* succeeded and changed something; a file processed successfully whose
\* content was already normalized is in neither list.
C2_CleanedIffChanged ==
    \A p \in Files :
        /\ InSeq(p, cleaned_file_paths)
              <=> (result[p] = "Ok" /\ ~AlreadyClean(orig[p], NormalizeEof))
        /\ (result[p] = "Ok" /\ AlreadyClean(orig[p], NormalizeEof)) =>
              (~InSeq(p, cleaned_file_paths) /\ ~InSeq(p, skipped_file_paths))

\* C2 amended: a matching file is placed in the cleaned list exactly when its
\* clean succeeded, whether or not anything differed; a file processed
\* successfully whose content was already normalized is in the cleaned list
\* too (once), and not in the skipped list.
C2_CleanedIffOk ==
    \A p \in Files :
        /\ InSeq(p, cleaned_file_paths) <=> result[p] = "Ok"
        /\ (result[p] = "Ok" /\ AlreadyClean(orig[p], NormalizeEof)) =>
              (Count(p, cleaned_file_paths) = 1 /\ ~InSeq(p, skipped_file_paths))

C2_Witness ==
    /\ result[NotesTxt] = "Ok"
    /\ AlreadyClean(orig[NotesTxt], NormalizeEof)
    /\ orig[NotesTxt] = <<NL, "a", NL>>
    /\ result[SubPy] = "FileNotCleaned"
    /\ cleaned_file_paths = <<NotesTxt>>

----------------------------------------------------------------------------
(* C5 *)

\* C5 as stated: with the normalization enabled, whatever the content was
\* (empty and blank-only files included) the content clean_file wrote ends
\* with exactly one newline.
C5_AlwaysOneFinalNewline ==
    NormalizeEof => \A p \in Files :
        result[p] = "Ok" => EndsWithOneNewline(fs[p])

\* C5 amended: with the normalization enabled, the content clean_file wrote
\* ends with exactly one newline when the original content has at least one
\* non-whitespace character; for an empty file and for a file of blank lines
\* only, the content written is empty.
C5_OneFinalNewlineOrEmpty ==
    NormalizeEof => \A p \in Files :
        result[p] = "Ok" =>
            IF HasVisibleChar(orig[p])
            THEN EndsWithOneNewline(fs[p])
            ELSE fs[p] = <<>>

C5_Witness ==
    /\ NormalizeEof
    /\ result[NotesTxt] = "Ok"
    /\ orig[NotesTxt] = <<"a", SP>>
    /\ fs[NotesTxt] = <<"a", NL>>

----------------------------------------------------------------------------
(* C8 *)

\* C8: a file whose clean_file failed is in the skipped list (once) and not in
\* the cleaned list; after FileNotOpened its content is unmodified; the walk
\* goes on to the end, the report is printed and the run exits successfully.
C8_FailuresAreSkippedNotFatal ==
    /\ \A p \in Files :
          /\ result[p] \in {"FileNotOpened", "FileNotCleaned"} =>
                /\ Count(p, skipped_file_paths) = 1
                /\ ~InSeq(p, cleaned_file_paths)
          /\ result[p] = "FileNotOpened" => (fs[p] = orig[p] /\ p \notin created)
    /\ (pc = "done" /\ root_is_dir) =>
          /\ queue = <<>>
          /\ exit_status = "Ok"
          /\ report = <<[cleaned |-> cleaned_file_paths,
                         skipped |-> skipped_file_paths,
                         errors  |-> walk_dir_errors]>>
          /\ \A p \in Files : result[p] # "none" \/ ~Matches(p) \/ Unreached(p)

C8_Witness ==
    /\ pc = "done"
    /\ exit_status = "Ok"
    /\ result[NotesTxt] = "FileNotOpened"
    /\ result[SubPy] = "FileNotCleaned"
    /\ skipped_file_paths = <<NotesTxt, SubPy>>
    /\ report # <<>>

----------------------------------------------------------------------------
(* C9 *)

\* what C9 says of a file that is not selected
NeverTouched(p) ==
    /\ result[p] = "none"
    /\ fs[p] = orig[p]
    /\ p \notin created
    /\ ~InSeq(p, cleaned_file_paths)
    /\ ~InSeq(p, skipped_file_paths)

\* C9 as stated: at the end of a run with a valid root every regular file
\* under the root with a configured extension is exactly once in exactly one
\* of the two lists, and every other file is never cleaned, never modified
\* and in no list.
C9_EveryMatchingFileRouted ==
    (pc = "done" /\ root_is_dir) => \A p \in Files :
        IF Configured(p)
        THEN Count(p, cleaned_file_paths) + Count(p, skipped_file_paths) = 1
        ELSE NeverTouched(p)

\* C9 amended: at the end of a run with a valid root every regular file with
\* a configured extension that the traversal reached (no directory above it
\* failed to be listed) is exactly once in exactly one of the two lists; a
\* file below a directory whose listing failed is never visited and in no
\* list; every file whose extension is absent or not exactly a configured one
\* is never cleaned, never modified and in no list.
C9_EveryReachedMatchingFileRouted ==
    (pc = "done" /\ root_is_dir) => \A p \in Files :
        IF Configured(p) /\ ~Unreached(p)
        THEN Count(p, cleaned_file_paths) + Count(p, skipped_file_paths) = 1
        ELSE NeverTouched(p)

C9_Witness ==
    /\ pc = "done"
    /\ root_is_dir
    /\ extensions = <<PY, TXT>>
    /\ walk_dir_errors = <<SubDir>>
    /\ cleaned_file_paths = <<NotesTxt>>
    /\ NeverTouched(SubPy)
    /\ NeverTouched(NotesTxtx)

====
